---- MODULE Spec2Model ----
(***************************************************************************)
(* Assignment sequencing, task replication and task merge of the           *)
(* lawnotation server (tRPC routers over a relational store).              *)
(*                                                                         *)
(* The store is four tables kept as sequences ordered by their serial id   *)
(* (row i has id i; rows are never deleted by the operations modelled).    *)
(* Every request is a sequence of awaited persistence calls; each await is *)
(* one step, so requests interleave at exactly those points.               *)
(***************************************************************************)
EXTENDS Integers, Sequences, FiniteSets, TLC

\* ------------------------------------------------------------------ bounds
MaxTasks == 3
MaxAssignments == 2
MaxSeqPos == 2
MaxAnnotations == 1
MaxRelations == 1
MaxSlotRows == 3
MaxEmails == 2
MaxCalls == 1

\* ------------------------------------------------------------- value sets
NULL == "null"
Users == {"u1", "u2"}
Annotators == Users \cup {NULL}
DocIds == {1, 2, 3}
\* documents(id, name): an immutable table; rows 1 and 3 carry the same name
DocName(d) == IF d = 2 THEN "Y" ELSE "X"
AnnotatorNumbers == {1, 2}
SeqPositions == 1..MaxSeqPos
TaskIds == 1..MaxTasks
PENDING == "pending"
DONE == "done"
MANUAL == "manual"
INTERNAL_SERVER_ERROR == "INTERNAL_SERVER_ERROR"
BAD_REQUEST == "BAD_REQUEST"
NOT_FOUND == "NOT_FOUND"
\* the message of an error returned by the persistence layer
DbErrorMessage == "db error"

VARIABLES tasks, assignments, annotations, relations, sq, rp, mg, users, ua, rp2, pg

vars == <<tasks, assignments, annotations, relations, sq, rp, mg, users, ua, rp2, pg>>
store == <<tasks, assignments, annotations, relations>>

\* ---------------------------------------------------------------- helpers
Range(s) == {s[i] : i \in DOMAIN s}

\* new TRPCError({code, message}); a message is the sequence of its parts
TRPCError(code, message) == [code |-> code, message |-> message]

Ok(v) == [ok |-> TRUE, value |-> v]
Throw(e) == [ok |-> FALSE, error |-> e]

\* ---------------------------------------------------- assignment.create
\* ZAssignmentFields: the columns a validated input keeps (origin is not one
\* of them, so the row takes the column default)
ZAssignmentFields(input) ==
  [annotator_id |-> input.annotator_id, task_id |-> input.task_id,
   document_id |-> input.document_id, status |-> input.status,
   seq_pos |-> input.seq_pos, difficulty_rating |-> input.difficulty_rating,
   annotator_number |-> input.annotator_number]

\* a column of an inserted row: the given value, or the column default
Col(fields, c, default) == IF c \in DOMAIN fields THEN fields[c] ELSE default

\* .from("assignments").insert(fields): the next serial id; columns that are
\* not given take their defaults (annotator_number: 0)
InsertAssignment(table, fields) ==
  Append(table, [id |-> Len(table) + 1,
                 annotator_id |-> Col(fields, "annotator_id", NULL),
                 task_id |-> fields.task_id,
                 document_id |-> fields.document_id,
                 status |-> Col(fields, "status", PENDING),
                 seq_pos |-> Col(fields, "seq_pos", 0),
                 difficulty_rating |-> Col(fields, "difficulty_rating", 0),
                 annotator_number |-> Col(fields, "annotator_number", 0),
                 origin |-> Col(fields, "origin", MANUAL)])

create(input) ==
  /\ Len(assignments) < MaxAssignments
  /\ input.task_id \in 1..Len(tasks)
  /\ assignments' = InsertAssignment(assignments, ZAssignmentFields(input))
  /\ UNCHANGED <<tasks, annotations, relations, sq, rp, mg, users, ua, rp2, pg>>

\* ---------------------------------------------------- assignment.update
\* .update(input.updates).eq("id", input.id): only the given columns change
ApplyUpdates(row, updates) ==
  [f \in DOMAIN row |-> IF f \in DOMAIN updates THEN updates[f] ELSE row[f]]

update(id, updates) ==
  /\ id \in 1..Len(assignments)
  /\ assignments' = [assignments EXCEPT ![id] = ApplyUpdates(@, updates)]
  /\ UNCHANGED <<tasks, annotations, relations, sq, rp, mg, users, ua, rp2, pg>>

\* ---------------------------------------------------------- task.create
\* the task rows that the replications in flight have yet to insert; the
\* tasks table is capped at MaxTasks rows
ToCome(l) == IF l.pc \in {"findById", "create"} THEN 1 ELSE 0
TasksToCome == ToCome(rp) + ToCome(mg.replicate) + ToCome(rp2)

InsertTask(table, fields) == Append(table, [id |-> Len(table) + 1, fields |-> fields])

task_create(fields) ==
  /\ Len(tasks) + TasksToCome < MaxTasks
  /\ tasks' = InsertTask(tasks, fields)
  /\ UNCHANGED <<assignments, annotations, relations, sq, rp, mg, users, ua, rp2, pg>>

\* =============================================================== Sequencer
\* The request in flight: pc is "idle", "count_total" (between the two
\* queries of countAssignmentsByUserAndTask) or "done" (the response is
\* ready); next holds the first query's {data, error}, and seen the table
\* as that query read it, kept to tell what the second query reads later.
NoNext == [data |-> <<>>, error |-> NULL]
\* the {data, error} of a query: the store may fail any call
Query(data, dbError) ==
  IF dbError THEN [data |-> <<>>, error |-> DbErrorMessage]
  ELSE [data |-> data, error |-> NULL]
SqIdle == [pc |-> "idle", op |-> "none", annotator_id |-> NULL, task_id |-> 0,
           next |-> NoNext, seen |-> <<>>, res |-> Ok(<<>>)]

\* assignments of one annotator in one task
ByUserAndTask(table, a, t) ==
  {r \in Range(table) : r.annotator_id = a /\ r.task_id = t}

\* .order(seq_pos asc).limit(1): the rows no other row precedes
FirstBySeqPos(rows) == {r \in rows : \A o \in rows : r.seq_pos <= o.seq_pos}

\* the ordering with task_id ascending, as .order("task_id") alone would give
FirstByTaskAscSeqPos(rows) ==
  {r \in rows : \A o \in rows :
     \/ r.task_id < o.task_id
     \/ r.task_id = o.task_id /\ r.seq_pos <= o.seq_pos}

\* .order(task_id desc).order(seq_pos asc).limit(1)
FirstByTaskDescSeqPos(rows) ==
  {r \in rows : \A o \in rows :
     \/ r.task_id > o.task_id
     \/ r.task_id = o.task_id /\ r.seq_pos <= o.seq_pos}

\* countAssignmentsByUserAndTask, first query: the seq_pos of the earliest
\* pending assignment (.maybeSingle(): data is null when there is none)
countAssignmentsByUserAndTask_next(a, t, dbError) ==
  /\ sq.pc = "idle"
  /\ LET pending == {r \in ByUserAndTask(assignments, a, t) : r.status = PENDING}
     IN \E data \in IF pending = {} THEN {<<>>}
                    ELSE {<<r.seq_pos>> : r \in FirstBySeqPos(pending)} :
          sq' = [SqIdle EXCEPT !.pc = "count_total",
                               !.op = "countAssignmentsByUserAndTask",
                               !.annotator_id = a, !.task_id = t,
                               !.next = Query(data, dbError),
                               !.seen = assignments]
  /\ UNCHANGED <<store, rp, mg, users, ua, rp2, pg>>

\* the result with next defaulting to the count itself: `?? count!`
CountResultWithoutSuccessor(next, total) ==
  IF next.error # NULL
    THEN Throw(TRPCError(INTERNAL_SERVER_ERROR,
                 <<"Error in 1 countAssignmentsByUserAndTask: ", next.error>>))
  ELSE IF total.error # NULL
    THEN Throw(TRPCError(INTERNAL_SERVER_ERROR,
                 <<"Error in 2 countAssignmentsByUserAndTask: ", total.error>>))
  ELSE Ok([next |-> IF next.data # <<>> THEN next.data[1] ELSE total.data[1],
           total |-> IF total.data # <<>> THEN total.data[1] ELSE 0])

\* the {next, total} the handler builds from the two query results
CountResult(next, total) ==
  IF next.error # NULL
    THEN Throw(TRPCError(INTERNAL_SERVER_ERROR,
                 <<"Error in 1 countAssignmentsByUserAndTask: ", next.error>>))
  ELSE IF total.error # NULL
    THEN Throw(TRPCError(INTERNAL_SERVER_ERROR,
                 <<"Error in 2 countAssignmentsByUserAndTask: ", total.error>>))
  ELSE Ok([next |-> IF next.data # <<>> THEN next.data[1] ELSE total.data[1] + 1,
           total |-> IF total.data # <<>> THEN total.data[1] ELSE 0])

\* countAssignmentsByUserAndTask, second query (count: "exact") and return
countAssignmentsByUserAndTask_total(dbError) ==
  /\ sq.pc = "count_total"
  /\ sq' = [sq EXCEPT !.pc = "done", !.seen = <<>>,
                      !.res = CountResult(sq.next,
                                Query(<<Cardinality(ByUserAndTask(assignments,
                                          sq.annotator_id, sq.task_id))>>, dbError))]
  /\ UNCHANGED <<store, rp, mg, users, ua, rp2, pg>>

\* countAssignmentsByUserAndTask with both of its queries made on one table
countAssignmentsByUserAndTask(table, a, t) ==
  LET pending == {r \in ByUserAndTask(table, a, t) : r.status = PENDING}
      first == CHOOSE r \in FirstBySeqPos(pending) : TRUE
  IN CountResult(Query(IF pending = {} THEN <<>> ELSE <<first.seq_pos>>, FALSE),
                 Query(<<Cardinality(ByUserAndTask(table, a, t))>>, FALSE))

\* the response of findNextAssignmentByUser for the row(s) the query yields
FindNextByUserResult(q) ==
  IF q.error # NULL
    THEN Throw(TRPCError(INTERNAL_SERVER_ERROR,
                 <<"Error in findNextAssignmentByUser: ", q.error>>))
  ELSE Ok(q.data)

findNextAssignmentByUser(user_id, dbError) ==
  /\ sq.pc = "idle"
  /\ LET pending == {r \in Range(assignments) :
                       r.annotator_id = user_id /\ r.status = PENDING}
     IN \E data \in IF pending = {} THEN {<<>>}
                    ELSE {<<r>> : r \in FirstByTaskDescSeqPos(pending)} :
          sq' = [SqIdle EXCEPT !.pc = "done", !.op = "findNextAssignmentByUser",
                               !.annotator_id = user_id,
                               !.res = FindNextByUserResult(Query(data, dbError))]
  /\ UNCHANGED <<store, rp, mg, users, ua, rp2, pg>>

\* rpc("next_random_assignment", {a_id, t_id}): the stored procedure yields
\* one of the annotator's pending assignments of the task, or no row
next_random_assignment(table, a_id, t_id) ==
  {r \in ByUserAndTask(table, a_id, t_id) : r.status = PENDING}

\* .single() on the rows a query yields: exactly one row, or an error
NoRowsMessage == "JSON object requested, multiple (or no) rows returned"

\* .maybeSingle(): no row is null data, not an error
MaybeSingle(q) ==
  IF q.error # NULL \/ Len(q.data) <= 1 THEN q
  ELSE [data |-> <<>>, error |-> NoRowsMessage]

Single(q) ==
  IF q.error # NULL \/ Len(q.data) = 1 THEN q
  ELSE [data |-> <<>>, error |-> NoRowsMessage]

\* the response of findNextAssignmentsByUserAndTask for a query result
FindNextByUserAndTaskResult(q) ==
  IF q.error # NULL
    THEN Throw(TRPCError(INTERNAL_SERVER_ERROR,
                 <<"Error in findNextAssignmentsByUserAndTask: ", q.error>>))
  ELSE Ok(q.data)

\* the handler, were it to mark the assignment it hands out as done
findNextAssignmentsByUserAndTaskTaking(a, t, dbError) ==
  /\ sq.pc = "idle"
  /\ LET candidates == next_random_assignment(assignments, a, t)
     IN \E rows \in IF candidates = {} THEN {<<>>}
                    ELSE {<<r>> : r \in candidates} :
          /\ sq' = [SqIdle EXCEPT !.pc = "done",
                                  !.op = "findNextAssignmentsByUserAndTask",
                                  !.annotator_id = a, !.task_id = t,
                                  !.res = FindNextByUserAndTaskResult(
                                             Single(Query(rows, dbError)))]
          /\ assignments' =
               [i \in DOMAIN assignments |->
                  IF rows # <<>> /\ assignments[i] = rows[1]
                    THEN [assignments[i] EXCEPT !.status = DONE]
                    ELSE assignments[i]]
  /\ UNCHANGED <<tasks, annotations, relations, rp, mg, users, ua, rp2, pg>>

findNextAssignmentsByUserAndTask(a, t, dbError) ==
  /\ sq.pc = "idle"
  /\ LET candidates == next_random_assignment(assignments, a, t)
     IN \E rows \in IF candidates = {} THEN {<<>>}
                    ELSE {<<r>> : r \in candidates} :
          sq' = [SqIdle EXCEPT !.pc = "done",
                               !.op = "findNextAssignmentsByUserAndTask",
                               !.annotator_id = a, !.task_id = t,
                               !.res = FindNextByUserAndTaskResult(
                                          Single(Query(rows, dbError)))]
  /\ UNCHANGED <<store, rp, mg, users, ua, rp2, pg>>

\* the response is delivered; the next request may start
sequencerReturn ==
  /\ sq.pc = "done"
  /\ sq' = SqIdle
  /\ UNCHANGED <<store, rp, mg, users, ua, rp2, pg>>



\* ========================================================= Task Replicator
\* assignment.createMany; its input schema is z.array(z.object({...}))
\* A JavaScript value handed to a procedure is tagged with its type: an array
\* is [jstype |-> "array", items |-> <<...>>], an object carries its fields.
JsArray(items) == [jstype |-> "array", items |-> items]

\* one element of the array: task_id and document_id are required integers,
\* annotator_id is an optional string (undefined passes, null does not)
ZCreateManyElement(e) ==
  /\ "task_id" \in DOMAIN e
  /\ "document_id" \in DOMAIN e
  /\ "annotator_id" \in DOMAIN e => e.annotator_id # NULL

ZCreateManyInput(input) ==
  /\ input.jstype = "array"
  /\ \A i \in DOMAIN input.items : ZCreateManyElement(input.items[i])

\* the parsed element: z.object keeps the keys of the schema and drops the rest
CreateManyColumns ==
  {"annotator_id", "task_id", "document_id", "status", "seq_pos",
   "difficulty_rating", "annotator_number"}
ZCreateManyParsed(e) == [c \in DOMAIN e \cap CreateManyColumns |-> e[c]]

RECURSIVE InsertAssignments(_, _, _)
InsertAssignments(table, items, i) ==
  IF i > Len(items) THEN table
  ELSE InsertAssignments(InsertAssignment(table, ZCreateManyParsed(items[i])), items, i + 1)

\* the rows appended to a table by an insert, in insertion order (.select())
Inserted(before, after) == SubSeq(after, Len(before) + 1, Len(after))

\* createMany(input): {res, table}: the response and the assignments table
createMany(table, input, dbError) ==
  IF ~ZCreateManyInput(input)
    THEN [res |-> Throw(TRPCError(BAD_REQUEST, <<"Expected array, received ", input.jstype>>)),
          table |-> table]
  ELSE IF dbError
    THEN [res |-> Throw(TRPCError(INTERNAL_SERVER_ERROR,
                          <<"Error in createMany: ", DbErrorMessage>>)),
          table |-> table]
  ELSE LET after == InsertAssignments(table, input.items, 1)
       IN [res |-> Ok(Inserted(table, after)), table |-> after]

\* the assignments an editor creates through assignment.createMany
createMany_call(items) ==
  /\ Len(assignments) + Len(items) <= MaxAssignments
  /\ \A i \in DOMAIN items : items[i].task_id \in 1..Len(tasks)
  /\ assignments' = createMany(assignments, JsArray(items), FALSE).table
  /\ UNCHANGED <<tasks, annotations, relations, sq, rp, mg, users, ua, rp2, pg>>

\* annotation rows are written by the annotation router
InsertAnnotation(table, fields) ==
  Append(table, [id |-> Len(table) + 1] @@ fields)

annotation_create(fields) ==
  /\ Len(annotations) < MaxAnnotations
  /\ fields.assignment_id \in 1..Len(assignments)
  /\ annotations' = InsertAnnotation(annotations, fields)
  /\ UNCHANGED <<tasks, assignments, relations, sq, rp, mg, users, ua, rp2, pg>>

\* relationDataService.create(fields, from_id, to_id)
convert_ls2db(rel, from_id, to_id) ==
  [ls_from |-> rel.from_id, ls_to |-> rel.to_id, direction |-> rel.direction,
   labels |-> rel.labels, from_id |-> from_id, to_id |-> to_id]

InsertRelation(table, fields) ==
  Append(table, [id |-> Len(table) + 1] @@ fields)

relation_create(fields, from_id, to_id) ==
  /\ Len(relations) < MaxRelations
  /\ from_id \in 1..Len(annotations) /\ to_id \in 1..Len(annotations)
  /\ relations' = InsertRelation(relations, convert_ls2db(fields, from_id, to_id))
  /\ UNCHANGED <<tasks, assignments, annotations, sq, rp, mg, users, ua, rp2, pg>>

\* ---- the reads of replicateTask
\* task.findById: .eq("id", id).single()
findById(id, dbError) ==
  LET q == Single(Query(SelectSeq(tasks, LAMBDA r : r.id = id), dbError))
  IN IF q.error # NULL
       THEN Throw(TRPCError(INTERNAL_SERVER_ERROR, <<"Error in tasks.findById: ", q.error>>))
     ELSE Ok(q.data[1])

\* assignment.findAssignmentsByTask: .eq("task_id", task_id).order("id")
findAssignmentsByTask(task_id, dbError) ==
  LET q == Query(SelectSeq(assignments, LAMBDA r : r.task_id = task_id), dbError)
  IN IF q.error # NULL
       THEN Throw(TRPCError(INTERNAL_SERVER_ERROR,
                    <<"Error in findAssignmentsByTask: ", q.error>>))
     ELSE Ok(q.data)

\* annotation.findAnnotationsByTask: the annotations of the task's assignments
findAnnotationsByTask(task_id, dbError) ==
  LET q == Query(SelectSeq(annotations,
                   LAMBDA r : assignments[r.assignment_id].task_id = task_id), dbError)
  IN IF q.error # NULL
       THEN Throw(TRPCError(INTERNAL_SERVER_ERROR,
                    <<"Error in findAnnotationsByTask: ", q.error>>))
     ELSE Ok(q.data)

\* relation.findRelationsByTask: the relations between the task's annotations
findRelationsByTask(task_id, dbError) ==
  LET q == Query(SelectSeq(relations,
                   LAMBDA r : assignments[annotations[r.from_id].assignment_id].task_id
                                = task_id), dbError)
  IN IF q.error # NULL
       THEN Throw(TRPCError(INTERNAL_SERVER_ERROR,
                    <<"Error in findRelationsByTask: ", q.error>>))
     ELSE Ok(q.data)

\* ---- the old-id -> new-id dictionaries
\* new_rows.map((n, index) => dic[old_rows[index].id] = n.id)
Dic(old_rows, new_rows) ==
  [k \in {old_rows[i].id : i \in DOMAIN new_rows} |->
     new_rows[CHOOSE i \in DOMAIN new_rows : old_rows[i].id = k].id]

\* {key: dic[k]}: the key is left undefined when the dictionary has no entry
Lookup(key, dic, k) == IF k \in DOMAIN dic THEN (key :> dic[k]) ELSE <<>>

\* ---- the request
\* The local variables of one replicateTask request: rp is a client's call,
\* mg.replicate the call mergeTasks makes.
RpIdle == [pc |-> "idle", task_id |-> 0, task |-> <<>>, new_task |-> <<>>,
           assignments |-> <<>>, dicAssignments |-> <<>>,
           annotations |-> <<>>, relations |-> <<>>, dicAnnotations |-> <<>>,
           res |-> Ok(<<>>)]
RpCalled(task_id) == [RpIdle EXCEPT !.pc = "findById", !.task_id = task_id]

\* what one step of a request leaves: its locals and the tables
Effect(local, ts, as, an, rl) ==
  [local |-> local, tasks |-> ts, assignments |-> as, annotations |-> an,
   relations |-> rl]
Reads(local) == Effect(local, tasks, assignments, annotations, relations)
Fails(l, res) == Reads([l EXCEPT !.pc = "done", !.res = res])

\* const task = await caller.task.findById(task_id)
replicate_findById(l, dbError) ==
  LET r == findById(l.task_id, dbError)
  IN IF r.ok THEN Reads([l EXCEPT !.pc = "create", !.task = r.value])
     ELSE Fails(l, r)

\* const new_task = await caller.task.create(task): ZTaskFields drops the id
replicate_create(l, dbError) ==
  IF dbError
    THEN Fails(l, Throw(TRPCError(INTERNAL_SERVER_ERROR,
                          <<"Error in tasks.create: ", DbErrorMessage>>)))
  ELSE LET after == InsertTask(tasks, l.task.fields)
       IN Effect([l EXCEPT !.pc = "findAssignmentsByTask", !.new_task = after[Len(after)]],
                 after, assignments, annotations, relations)

\* const assignments = await caller.assignment.findAssignmentsByTask(task_id)
replicate_findAssignmentsByTask(l, dbError) ==
  LET r == findAssignmentsByTask(l.task_id, dbError)
  IN IF r.ok THEN Reads([l EXCEPT !.pc = "createAssignments", !.assignments = r.value])
     ELSE Fails(l, r)

\* the argument of assignment.createMany: {task_id, assignments: [...]}
ReplicaOfAssignment(a) ==
  [annotator_id |-> a.annotator_id, annotator_number |-> a.annotator_number,
   document_id |-> a.document_id, seq_pos |-> a.seq_pos, status |-> a.status,
   difficulty_rating |-> a.difficulty_rating, origin |-> a.origin]

ReplicateCreateManyInput(l) ==
  [jstype |-> "object", task_id |-> l.new_task.id,
   assignments |-> [i \in DOMAIN l.assignments |-> ReplicaOfAssignment(l.assignments[i])]]

\* const new_assignments = await caller.assignment.createMany({...})
replicate_createAssignments(l, dbError) ==
  LET c == createMany(assignments, ReplicateCreateManyInput(l), dbError)
  IN IF c.res.ok
       THEN Effect([l EXCEPT !.pc = "findAnnotationsByTask",
                             !.dicAssignments = Dic(l.assignments, c.res.value)],
                   tasks, c.table, annotations, relations)
     ELSE Fails(l, c.res)

\* const annotations = await caller.annotation.findAnnotationsByTask(task_id)
replicate_findAnnotationsByTask(l, dbError) ==
  LET r == findAnnotationsByTask(l.task_id, dbError)
  IN IF r.ok THEN Reads([l EXCEPT !.pc = "createAnnotations", !.annotations = r.value])
     ELSE Fails(l, r)

ReplicaOfAnnotation(a, dicAssignments) ==
  Lookup("assignment_id", dicAssignments, a.assignment_id) @@
  [label |-> a.label, start_index |-> a.start_index, end_index |-> a.end_index,
   text |-> a.text, ls_id |-> a.ls_id, origin |-> a.origin,
   confidence_rating |-> a.confidence_rating]

RECURSIVE InsertAnnotations(_, _, _)
InsertAnnotations(table, items, i) ==
  IF i > Len(items) THEN table
  ELSE InsertAnnotations(InsertAnnotation(table, items[i]), items, i + 1)

RECURSIVE InsertRelations(_, _, _)
InsertRelations(table, items, i) ==
  IF i > Len(items) THEN table
  ELSE InsertRelations(InsertRelation(table, items[i]), items, i + 1)

\* const new_annotations = await caller.annotation.createMany([...]); a row
\* without its assignment_id is refused
replicate_createAnnotations(l, dbError) ==
  LET items == [i \in DOMAIN l.annotations |->
                  ReplicaOfAnnotation(l.annotations[i], l.dicAssignments)]
      after == InsertAnnotations(annotations, items, 1)
  IN IF dbError \/ \E i \in DOMAIN items : "assignment_id" \notin DOMAIN items[i]
       THEN Fails(l, Throw(TRPCError(INTERNAL_SERVER_ERROR,
                             <<"Error in annotation.createMany: ", DbErrorMessage>>)))
     ELSE Effect([l EXCEPT !.pc = "findRelationsByTask",
                           !.dicAnnotations = Dic(l.annotations, Inserted(annotations, after))],
                 tasks, assignments, after, relations)

\* const relations = await caller.relation.findRelationsByTask(task_id), then
\* await caller.relation.createMany([...]) and return new_task
ReplicaOfRelation(a, dicAnnotations) ==
  Lookup("from_id", dicAnnotations, a.from_id) @@
  Lookup("to_id", dicAnnotations, a.to_id) @@
  [direction |-> a.direction, labels |-> a.labels, ls_from |-> a.ls_from,
   ls_to |-> a.ls_to]

replicate_findRelationsByTask(l, dbError) ==
  LET r == findRelationsByTask(l.task_id, dbError)
  IN IF r.ok THEN Reads([l EXCEPT !.pc = "createRelations", !.relations = r.value])
     ELSE Fails(l, r)

replicate_createRelations(l, dbError) ==
  LET items == [i \in DOMAIN l.relations |->
                  ReplicaOfRelation(l.relations[i], l.dicAnnotations)]
      after == InsertRelations(relations, items, 1)
  IN IF \/ dbError
        \/ \E i \in DOMAIN items : {"from_id", "to_id"} \ DOMAIN items[i] # {}
       THEN Fails(l, Throw(TRPCError(INTERNAL_SERVER_ERROR,
                             <<"Error in relation.createMany: ", DbErrorMessage>>)))
     ELSE Effect([l EXCEPT !.pc = "done", !.res = Ok(l.new_task)],
                 tasks, assignments, annotations, after)

\* the step of replicateTask at the request's await point
replicateTask(l, dbError) ==
  CASE l.pc = "findById" -> replicate_findById(l, dbError)
    [] l.pc = "create" -> replicate_create(l, dbError)
    [] l.pc = "findAssignmentsByTask" -> replicate_findAssignmentsByTask(l, dbError)
    [] l.pc = "createAssignments" -> replicate_createAssignments(l, dbError)
    [] l.pc = "findAnnotationsByTask" -> replicate_findAnnotationsByTask(l, dbError)
    [] l.pc = "createAnnotations" -> replicate_createAnnotations(l, dbError)
    [] l.pc = "findRelationsByTask" -> replicate_findRelationsByTask(l, dbError)
    [] l.pc = "createRelations" -> replicate_createRelations(l, dbError)


replicateTask_call(task_id) ==
  /\ rp.pc = "idle"
  /\ Len(tasks) + TasksToCome < MaxTasks
  /\ rp' = RpCalled(task_id)
  /\ UNCHANGED <<store, sq, mg, users, ua, rp2, pg>>

replicateTask_step(dbError) ==
  /\ rp.pc \notin {"idle", "done"}
  /\ LET e == replicateTask(rp, dbError)
     IN /\ rp' = e.local
        /\ tasks' = e.tasks
        /\ assignments' = e.assignments
        /\ annotations' = e.annotations
        /\ relations' = e.relations
  /\ UNCHANGED <<sq, mg, users, ua, rp2, pg>>

\* the response (the new task, or the error) is delivered
replicateTask_return ==
  /\ rp.pc = "done"
  /\ rp' = RpIdle
  /\ UNCHANGED <<store, sq, mg, users, ua, rp2, pg>>

\* ---- a second client's replicateTask request, side by side with the first
replicateTask2_call(task_id) ==
  /\ rp2.pc = "idle"
  /\ Len(tasks) + TasksToCome < MaxTasks
  /\ rp2' = RpCalled(task_id)
  /\ UNCHANGED <<store, sq, rp, mg, users, ua, pg>>

replicateTask2_step(dbError) ==
  /\ rp2.pc \notin {"idle", "done"}
  /\ LET e == replicateTask(rp2, dbError)
     IN /\ rp2' = e.local
        /\ tasks' = e.tasks
        /\ assignments' = e.assignments
        /\ annotations' = e.annotations
        /\ relations' = e.relations
  /\ UNCHANGED <<sq, rp, mg, users, ua, pg>>

replicateTask2_return ==
  /\ rp2.pc = "done"
  /\ rp2' = RpIdle
  /\ UNCHANGED <<store, sq, rp, mg, users, ua, pg>>

\* ============================================================= Task Merger
MgIdle == [pc |-> "idle", originalTaskId |-> 0, similarTaskId |-> 0,
           replicate |-> RpIdle, mergedTask |-> <<>>,
           originalAssignments |-> <<>>, similarAssignments |-> <<>>,
           res |-> Ok(<<>>)]

\* `${error}` of a TRPCError
ErrorToString(error) == <<"TRPCError: ">> \o error.message

\* a catch block that throws the error on as it caught it
mergeTasks_rethrow(m, error) == [m EXCEPT !.pc = "done", !.res = Throw(error)]

\* catch (error) { throw new TRPCError({code: "INTERNAL_SERVER_ERROR", ...}) }
mergeTasks_catch(m, error) ==
  [m EXCEPT !.pc = "done",
            !.res = Throw(TRPCError(INTERNAL_SERVER_ERROR,
                            <<"Error in mergeTasks: ">> \o ErrorToString(error)))]

\* assignment.findRichAssignmentsByTask: the task's assignments, each joined
\* with its document's name
findRichAssignmentsByTask(task_id, dbError) ==
  LET q == Query(SelectSeq(assignments, LAMBDA r : r.task_id = task_id), dbError)
  IN IF q.error # NULL
       THEN Throw(TRPCError(INTERNAL_SERVER_ERROR,
                    <<"Error in findRichAssignmentsByTask: ", q.error>>))
     ELSE Ok([i \in DOMAIN q.data |->
                q.data[i] @@ [documents |-> [name |-> DocName(q.data[i].document_id)]]])

\* const mergedTask = await caller.task.replicateTask(originalTaskId)
merge_replicateTask(m, dbError) ==
  LET e == replicateTask(m.replicate, dbError)
      l == e.local
      after == [m EXCEPT !.replicate = l]
  IN Effect(IF l.pc # "done" THEN after
            ELSE IF l.res.ok
              THEN [after EXCEPT !.pc = "findRichOriginal", !.mergedTask = l.res.value]
            ELSE mergeTasks_catch(after, l.res.error),
            e.tasks, e.assignments, e.annotations, e.relations)

merge_findRichOriginal(m, dbError) ==
  LET r == findRichAssignmentsByTask(m.originalTaskId, dbError)
  IN Reads(IF r.ok THEN [m EXCEPT !.pc = "findRichSimilar", !.originalAssignments = r.value]
           ELSE mergeTasks_catch(m, r.error))

merge_findRichSimilar(m, dbError) ==
  LET r == findRichAssignmentsByTask(m.similarTaskId, dbError)
  IN Reads(IF r.ok THEN [m EXCEPT !.pc = "createMany", !.similarAssignments = r.value]
           ELSE mergeTasks_catch(m, r.error))

\* name2Id: the document_id of the first original assignment with each name
name2Id(originalAssignments) ==
  [n \in {originalAssignments[i].documents.name : i \in DOMAIN originalAssignments} |->
     originalAssignments[CHOOSE i \in DOMAIN originalAssignments :
        /\ originalAssignments[i].documents.name = n
        /\ \A j \in 1..(i - 1) : originalAssignments[j].documents.name # n].document_id]

\* newAssignments: the similar task's assignments under the merged task, the
\* document re-pointed through name2Id
newAssignments(m) ==
  [i \in DOMAIN m.similarAssignments |->
     LET a == m.similarAssignments[i]
     IN Lookup("document_id", name2Id(m.originalAssignments), a.documents.name) @@
        [task_id |-> m.mergedTask.id, annotator_id |-> a.annotator_id,
         annotator_number |-> a.annotator_number, status |-> a.status,
         origin |-> a.origin, seq_pos |-> a.seq_pos,
         difficulty_rating |-> a.difficulty_rating]]

\* await caller.assignment.createMany({task_id, assignments}); return mergedTask
merge_createMany(m, dbError) ==
  LET c == createMany(assignments,
             [jstype |-> "object", task_id |-> m.mergedTask.id,
              assignments |-> newAssignments(m)], dbError)
  IN Effect(IF c.res.ok THEN [m EXCEPT !.pc = "done", !.res = Ok(m.mergedTask)]
            ELSE mergeTasks_catch(m, c.res.error),
            tasks, c.table, annotations, relations)

\* the step of mergeTasks at the request's await point
mergeTasks(m, dbError) ==
  CASE m.pc = "replicateTask" -> merge_replicateTask(m, dbError)
    [] m.pc = "findRichOriginal" -> merge_findRichOriginal(m, dbError)
    [] m.pc = "findRichSimilar" -> merge_findRichSimilar(m, dbError)
    [] m.pc = "createMany" -> merge_createMany(m, dbError)

mergeTasks_call(originalTaskId, similarTaskId) ==
  /\ mg.pc = "idle"
  /\ Len(tasks) + TasksToCome < MaxTasks
  /\ mg' = [MgIdle EXCEPT !.pc = "replicateTask", !.originalTaskId = originalTaskId,
                          !.similarTaskId = similarTaskId,
                          !.replicate = RpCalled(originalTaskId)]
  /\ UNCHANGED <<store, sq, rp, users, ua, rp2, pg>>

mergeTasks_step(dbError) ==
  /\ mg.pc \notin {"idle", "done"}
  /\ LET e == mergeTasks(mg, dbError)
     IN /\ mg' = e.local
        /\ tasks' = e.tasks
        /\ assignments' = e.assignments
        /\ annotations' = e.annotations
        /\ relations' = e.relations
  /\ UNCHANGED <<sq, rp, users, ua, rp2, pg>>

mergeTasks_return ==
  /\ mg.pc = "done"
  /\ mg' = MgIdle
  /\ UNCHANGED <<store, sq, rp, users, ua, rp2, pg>>

\* ================================================ Reassignment Coordinator
\* The accounts of the deployment: an id and an email each. A row of
\* public.users is {id, email}; assigned_task_id is the task in the metadata
\* of the account (0: none).
Accounts ==
  {[id |-> "u1", email |-> "u1@x"], [id |-> "u2", email |-> "u2@x"],
   [id |-> "u3", email |-> "u3@x"], [id |-> "u4", email |-> "u4@x"]}
Emails == {a.email : a \in Accounts}

\* invite.data.user.id: the id of the account an invitation creates
InvitedUserId(email) == (CHOOSE a \in Accounts : a.email = email).id

\* LEFT JOIN users as u ON (a.annotator_id = u.id)
UserOf(us, annotator_id) ==
  IF \E u \in us : u.id = annotator_id
    THEN CHOOSE u \in us : u.id = annotator_id
  ELSE [id |-> NULL, email |-> NULL, assigned_task_id |-> 0]

\* get_all_annotators_from_task: GROUP BY u.id, a.annotator_number
AnnotatorGroups(table, us, t_id) ==
  {[id |-> UserOf(us, r.annotator_id).id,
    email |-> UserOf(us, r.annotator_id).email,
    annotator_number |-> r.annotator_number] :
     r \in {x \in Range(table) : x.task_id = t_id /\ t_id \in 1..Len(tasks)}}

\* ORDER BY annotator_number: every listing of the groups in that order
get_all_annotators_from_task(table, us, t_id) ==
  LET groups == AnnotatorGroups(table, us, t_id)
  IN {q \in [1..Cardinality(groups) -> groups] :
        /\ \A r \in groups : \E i \in DOMAIN q : q[i] = r
        /\ \A i, j \in DOMAIN q :
             i < j => q[i].annotator_number <= q[j].annotator_number}

\* task.getAllAnnotatorsFromTask on the rows the procedure yields
getAllAnnotatorsFromTask(rows, dbError) ==
  LET q == Query(rows, dbError)
  IN IF q.error # NULL
       THEN Throw(TRPCError(INTERNAL_SERVER_ERROR,
                    <<"Error in tasks.getAllAnnotatorsFromTask: ", q.error>>))
     ELSE Ok(q.data)

\* assignment.findAssignmentsByTaskAndUser: a filter is applied when its
\* input is given and truthy (`if (input.annotator_number)`)
findAssignmentsByTaskAndUser(input, dbError) ==
  LET q == Query(SelectSeq(assignments, LAMBDA r :
                   /\ r.task_id = input.task_id
                   /\ ("annotator_id" \in DOMAIN input /\ input.annotator_id # "")
                        => r.annotator_id = input.annotator_id
                   /\ ("annotator_number" \in DOMAIN input /\ input.annotator_number # 0)
                        => r.annotator_number = input.annotator_number), dbError)
  IN IF q.error # NULL
       THEN Throw(TRPCError(INTERNAL_SERVER_ERROR,
                    <<"Error in findAssignmentsByTaskAndUser: ", q.error>>))
     ELSE Ok(q.data)

\* assignment.findAssignmentsByUserTaskSeq: .eq(task_id).eq(annotator_id)
\* .eq(seq_pos).single()
findAssignmentsByUserTaskSeq(table, input, dbError) ==
  LET q == Single(Query(SelectSeq(table, LAMBDA r :
                   /\ r.task_id = input.task_id
                   /\ r.annotator_id = input.annotator_id
                   /\ r.seq_pos = input.seq_pos), dbError))
  IN IF q.error # NULL
       THEN Throw(TRPCError(INTERNAL_SERVER_ERROR,
                    <<"Error in findAssignmentsByUserTaskSeq: ", q.error>>))
     ELSE Ok(q.data[1])

\* What can go wrong inside assignUserToTask: the lookup of the email, the
\* invitation, the update of the account's metadata, the notification mail
Faults == {"none", "lookup", "invite", "update", "mail"}

\* assignment.assignUserToTask: {res, users}: the response and the accounts.
\* A failed lookup leaves email_found.data null, as for an unknown email; an
\* invitation to an email that has an account is refused; the result of
\* updateUserById is not looked at.
assignUserToTask(us, email, task_id, fault) ==
  LET found == {u \in us : u.email = email /\ fault # "lookup"}
  IN IF found = {}
       THEN IF fault = "invite" \/ \E u \in us : u.email = email
              THEN [res |-> Throw(TRPCError(INTERNAL_SERVER_ERROR,
                                    <<"Error inviting: ", "invite error">>)),
                    users |-> us]
            ELSE [res |-> Ok(InvitedUserId(email)),
                  users |-> us \cup {[id |-> InvitedUserId(email), email |-> email,
                                      assigned_task_id |-> task_id]}]
     ELSE LET user == CHOOSE u \in found : TRUE
              updated == IF fault = "update" THEN us
                         ELSE (us \ {user}) \cup
                                {[user EXCEPT !.assigned_task_id = task_id]}
          IN IF fault = "mail"
               THEN [res |-> Throw(TRPCError(INTERNAL_SERVER_ERROR,
                        <<"There was an error sending an email to the invited user.">>)),
                     users |-> updated]
             ELSE [res |-> Ok(user.id), users |-> updated]

\* The requests that run updateAssignees side by side
Reassigners == {1, 2}

\* The local variables of one updateAssignees request; served counts the
\* requests the client has had answered, which the model caps at MaxCalls
UaIdle == [pc |-> "idle", task_id |-> 0, new_emails |-> <<>>, annotators |-> <<>>,
           i |-> 1, assignments |-> <<>>, j |-> 1, new_user |-> NULL,
           stats |-> [success |-> 0, failed |-> 0], res |-> Ok(<<>>),
           served |-> 0]

\* a step of updateAssignees: its locals, the assignments and the accounts
UaEffect(local, as, us) == [local |-> local, assignments |-> as, users |-> us]
UaThrows(l, error) == [l EXCEPT !.pc = "done", !.res = Throw(error)]

\* a classification that looks at the successes only
ClassifyBySuccess(stats, annotators) ==
  IF stats.success # 0
    THEN Ok([message |-> "All the assignments have been reassigned",
             annotators |-> annotators])
  ELSE Ok([message |-> "No changes have been made", annotators |-> annotators])

\* the classification of the request from stats (lines 116-141)
Classify(stats, annotators) ==
  IF stats.success # 0 /\ stats.failed = 0
    THEN Ok([message |-> "All the assignments have been reassigned",
             annotators |-> annotators])
  ELSE IF stats.success = 0 /\ stats.failed = 0
    THEN Ok([message |-> "No changes have been made", annotators |-> annotators])
  ELSE IF stats.success # 0 /\ stats.failed # 0
    THEN Throw(TRPCError(INTERNAL_SERVER_ERROR, <<"Some assignment updates failed">>))
  ELSE IF stats.success = 0 /\ stats.failed # 0
    THEN Throw(TRPCError(INTERNAL_SERVER_ERROR, <<"All assignment updates failed">>))
  ELSE Throw(TRPCError(INTERNAL_SERVER_ERROR, <<"Undefined case">>))

\* a loop that takes the slots whose email is the same for the changed ones
NextSame(l) ==
  LET same == {k \in l.i..Len(l.new_emails) :
                 \/ k > Len(l.annotators)
                 \/ l.new_emails[k] = l.annotators[k].email}
  IN IF same = {} THEN 0 ELSE CHOOSE k \in same : \A o \in same : k <= o

\* `input.new_emails[i] != annotators[i].email` for the indices from l.i on:
\* the first index whose email differs (reading annotators[i] past the end
\* of the list is a TypeError), 0 when the loop runs to its end
NextChanged(l) ==
  LET changed == {k \in l.i..Len(l.new_emails) :
                    \/ k > Len(l.annotators)
                    \/ l.new_emails[k] # l.annotators[k].email}
  IN IF changed = {} THEN 0 ELSE CHOOSE k \in changed : \A o \in changed : k <= o

\* the loop from its head up to the next await: the unchanged slots are
\* passed over, then comes the read of a changed slot or the classification
ua_loop(l) ==
  LET k == NextChanged(l)
  IN IF k = 0 THEN [l EXCEPT !.pc = "done", !.res = Classify(l.stats, l.annotators)]
     ELSE IF k > Len(l.annotators)
       THEN UaThrows(l, TRPCError(INTERNAL_SERVER_ERROR,
                         <<"Cannot read properties of undefined (reading 'email')">>))
     ELSE [l EXCEPT !.i = k, !.pc = "findAssignmentsByTaskAndUser"]

\* line 108 and the next turn of the loop
ua_endSlot(l) ==
  ua_loop([l EXCEPT !.annotators[l.i].email = l.new_emails[l.i], !.i = l.i + 1])

\* the updates of the slot's assignments, when it has any
ua_afterUser(l) ==
  IF l.assignments = <<>> THEN ua_endSlot(l) ELSE [l EXCEPT !.pc = "update", !.j = 1]

\* const annotators = await caller.task.getAllAnnotatorsFromTask(task_id)
ua_getAllAnnotators(l, rows, dbError) ==
  LET res == getAllAnnotatorsFromTask(rows, dbError)
  IN UaEffect(IF res.ok THEN ua_loop([l EXCEPT !.annotators = res.value, !.i = 1])
              ELSE UaThrows(l, res.error),
              assignments, users)

\* a slot handling without the guard `if (input.new_emails[i] && ...)`
ua_findAssignmentsThenUser(l, dbError) ==
  LET res == findAssignmentsByTaskAndUser(
               [annotator_number |-> l.annotators[l.i].annotator_number,
                task_id |-> l.task_id], dbError)
  IN UaEffect(IF ~res.ok THEN UaThrows(l, res.error)
              ELSE [l EXCEPT !.assignments = res.value, !.pc = "assignUserToTask"],
              assignments, users)

\* const assignments = await caller.assignment.findAssignmentsByTaskAndUser(..)
ua_findAssignments(l, dbError) ==
  LET res == findAssignmentsByTaskAndUser(
               [annotator_number |-> l.annotators[l.i].annotator_number,
                task_id |-> l.task_id], dbError)
  IN UaEffect(IF ~res.ok THEN UaThrows(l, res.error)
              ELSE IF l.new_emails[l.i] # ""
                THEN [l EXCEPT !.assignments = res.value, !.pc = "assignUserToTask"]
              ELSE ua_afterUser([l EXCEPT !.assignments = res.value, !.new_user = NULL]),
              assignments, users)

\* new_user = await caller.assignment.assignUserToTask({email, task_id})
ua_assignUser(l, fault) ==
  LET e == assignUserToTask(users, l.new_emails[l.i], l.task_id, fault)
  IN UaEffect(IF e.res.ok THEN ua_afterUser([l EXCEPT !.new_user = e.res.value])
              ELSE UaThrows(l, e.res.error),
              assignments, e.users)

\* the updates of a slot made all or none: a failed update puts the
\* assignments of the slot back as they were read
ua_updateAllOrNone(l, dbError) ==
  LET ass == l.assignments[l.j]
      counted == [l EXCEPT !.j = l.j + 1,
                           !.stats = IF dbError
                                       THEN [@ EXCEPT !.failed = @ + 1]
                                     ELSE [@ EXCEPT !.success = @ + 1]]
  IN UaEffect(IF l.j = Len(l.assignments) THEN ua_endSlot(counted) ELSE counted,
              IF dbError
                THEN [id \in DOMAIN assignments |->
                        IF \E k \in 1..Len(l.assignments) : l.assignments[k].id = id
                          THEN CHOOSE row \in Range(l.assignments) : row.id = id
                        ELSE assignments[id]]
              ELSE [assignments EXCEPT ![ass.id] =
                      ApplyUpdates(@, [annotator_id |-> l.new_user])],
              users)

\* an update that is made only while the assignment is bound as it was read
\* (.eq("annotator_id", ass.annotator_id)): on a row re-bound since, it
\* matches nothing and reports no error
ua_updateIfAsRead(l, dbError) ==
  LET ass == l.assignments[l.j]
      counted == [l EXCEPT !.j = l.j + 1,
                           !.stats = IF dbError
                                       THEN [@ EXCEPT !.failed = @ + 1]
                                     ELSE [@ EXCEPT !.success = @ + 1]]
  IN UaEffect(IF l.j = Len(l.assignments) THEN ua_endSlot(counted) ELSE counted,
              IF dbError \/ assignments[ass.id].annotator_id # ass.annotator_id
                THEN assignments
              ELSE [assignments EXCEPT ![ass.id] =
                      ApplyUpdates(@, [annotator_id |-> l.new_user])],
              users)

\* an update that also closes the assignment
ua_updateAndClose(l, dbError) ==
  LET ass == l.assignments[l.j]
      counted == [l EXCEPT !.j = l.j + 1,
                           !.stats = IF dbError
                                       THEN [@ EXCEPT !.failed = @ + 1]
                                     ELSE [@ EXCEPT !.success = @ + 1]]
  IN UaEffect(IF l.j = Len(l.assignments) THEN ua_endSlot(counted) ELSE counted,
              IF dbError THEN assignments
              ELSE [assignments EXCEPT ![ass.id] =
                      ApplyUpdates(@, [annotator_id |-> l.new_user, status |-> DONE])],
              users)

\* try { await caller.assignment.update({id, updates: {annotator_id}}) }
ua_update(l, dbError) ==
  LET ass == l.assignments[l.j]
      counted == [l EXCEPT !.j = l.j + 1,
                           !.stats = IF dbError
                                       THEN [@ EXCEPT !.failed = @ + 1]
                                     ELSE [@ EXCEPT !.success = @ + 1]]
  IN UaEffect(IF l.j = Len(l.assignments) THEN ua_endSlot(counted) ELSE counted,
              IF dbError THEN assignments
              ELSE [assignments EXCEPT ![ass.id] =
                      ApplyUpdates(@, [annotator_id |-> l.new_user])],
              users)

\* the handler, taken from one await to the next
updateAssignees(l, rows, dbError, fault) ==
  CASE l.pc = "getAllAnnotatorsFromTask" -> ua_getAllAnnotators(l, rows, dbError)
    [] l.pc = "findAssignmentsByTaskAndUser" -> ua_findAssignments(l, dbError)
    [] l.pc = "assignUserToTask" -> ua_assignUser(l, fault)
    [] l.pc = "update" -> ua_update(l, dbError)

updateAssignees_call(r, task_id, new_emails) ==
  /\ ua[r].pc = "idle"
  /\ ua[r].served < MaxCalls
  /\ ua' = [ua EXCEPT ![r] = [@ EXCEPT !.pc = "getAllAnnotatorsFromTask",
                                       !.task_id = task_id,
                                       !.new_emails = new_emails]]
  /\ UNCHANGED <<store, sq, rp, mg, users, rp2, pg>>

\* the outcomes a step has: a store error or not, for assignUserToTask its
\* faults, for the list of annotators the orders the procedure may yield
updateAssignees_step(r, dbError, fault) ==
  /\ ua[r].pc \notin {"idle", "done"}
  /\ IF ua[r].pc = "assignUserToTask" THEN ~dbError ELSE fault = "none"
  /\ \E rows \in IF ua[r].pc # "getAllAnnotatorsFromTask" THEN {<<>>}
                  ELSE get_all_annotators_from_task(assignments, users, ua[r].task_id) :
       LET e == updateAssignees(ua[r], rows, dbError, fault)
       IN /\ ua' = [ua EXCEPT ![r] = e.local]
          /\ assignments' = e.assignments
          /\ users' = e.users
  /\ UNCHANGED <<tasks, annotations, relations, sq, rp, mg, rp2, pg>>

\* the response (the message and the annotators, or the error) is delivered
updateAssignees_return(r) ==
  /\ ua[r].pc = "done"
  /\ ua' = [ua EXCEPT ![r] = [UaIdle EXCEPT !.served = ua[r].served + 1]]
  /\ UNCHANGED <<store, sq, rp, mg, users, rp2, pg>>

\* ======================================================== Annotation page
\* The page on which an annotator, or an editor, works on one assignment.
\* pg.assignment is props.assignment, the row as the page was given it;
\* pc is "closed", "open", the await of save that is pending, or "returned".
PREVIOUS == "PREVIOUS"
NEXT == "NEXT"
CURRENT == "CURRENT"
Directions == {PREVIOUS, NEXT, CURRENT}
Ratings == {1}

PgClosed == [pc |-> "closed", assignment |-> <<>>, isEditor |-> FALSE,
             dir |-> CURRENT, rating |-> 0, res |-> FALSE]

\* the page is given an assignment of the store
page_open(id, isEditor) ==
  /\ pg.pc = "closed"
  /\ id \in DOMAIN assignments
  /\ pg' = [PgClosed EXCEPT !.pc = "open", !.assignment = assignments[id],
                            !.isEditor = isEditor]
  /\ UNCHANGED <<store, sq, rp, mg, users, ua, rp2>>

\* the test at the head of save: an annotator who goes on from an assignment
\* that is not done, has made no annotation and answers no to confirm()
save_declined(props, dir, isEditor, noAnnotations, confirmed) ==
  /\ dir = NEXT
  /\ ~isEditor
  /\ props.status # DONE
  /\ noAnnotations
  /\ ~confirmed

\* updates that also put the saved assignment at the end of the sequence
save_updatesRenumbering(rating) ==
  [status |-> DONE, difficulty_rating |-> rating, seq_pos |-> MaxSeqPos + 1]

\* the updates of save's assignment.update
save_updates(rating) == [status |-> DONE, difficulty_rating |-> rating]

\* a save that updates the assignment whatever the direction
save_alwaysUpdates(dir) == "update"

\* what follows updateAnnotationsAndRelations: `if (dir != Direction.PREVIOUS)`
save_afterAnnotations(dir) == IF dir # PREVIOUS THEN "update" ELSE "returned"

\* annotation.updateAssignmentAnnotations with the annotations the page holds
updateAssignmentAnnotations(table, assignment_id) == table

\* Done(dir) up to the first await of save(dir); rating is the rating of the
\* doc_confidence annotation
save_call(dir, noAnnotations, confirmed, rating) ==
  /\ pg.pc = "open"
  /\ pg' = IF save_declined(pg.assignment, dir, pg.isEditor, noAnnotations, confirmed)
             THEN [pg EXCEPT !.pc = "returned", !.dir = dir, !.res = FALSE]
           ELSE [pg EXCEPT !.pc = "updateAnnotationsAndRelations", !.dir = dir,
                           !.rating = rating]
  /\ UNCHANGED <<store, sq, rp, mg, users, ua, rp2>>

\* await updateAnnotationsAndRelations(serializedAnnotations, rating)
save_updateAnnotationsAndRelations ==
  /\ pg.pc = "updateAnnotationsAndRelations"
  /\ annotations' = updateAssignmentAnnotations(annotations, pg.assignment.id)
  /\ pg' = [pg EXCEPT !.pc = save_afterAnnotations(pg.dir),
                      !.res = (save_afterAnnotations(pg.dir) = "returned")]
  /\ UNCHANGED <<tasks, assignments, relations, sq, rp, mg, users, ua, rp2>>

\* await $trpc.assignment.update.mutate({id, updates}); return true. A
\* failed update rejects the promise of save.
save_update(dbError) ==
  /\ pg.pc = "update"
  /\ assignments' = IF dbError THEN assignments
                    ELSE [assignments EXCEPT ![pg.assignment.id] =
                            ApplyUpdates(@, save_updates(pg.rating))]
  /\ pg' = [pg EXCEPT !.pc = "returned", !.res = ~dbError]
  /\ UNCHANGED <<tasks, annotations, relations, sq, rp, mg, users, ua, rp2>>

\* the page moves on (emit) or is left
page_close ==
  /\ pg.pc = "returned"
  /\ pg' = PgClosed
  /\ UNCHANGED <<store, sq, rp, mg, users, ua, rp2>>

\* ============================================================ specifications
\* the accounts that exist from the start
InitialUsers ==
  {[id |-> a.id, email |-> a.email, assigned_task_id |-> 0] :
     a \in {x \in Accounts : x.id \in Users}}

Init ==
  /\ tasks = <<>>
  /\ assignments = <<>>
  /\ annotations = <<>>
  /\ relations = <<>>
  /\ sq = SqIdle
  /\ rp = RpIdle
  /\ mg = MgIdle
  /\ users = InitialUsers
  /\ ua = [r \in Reassigners |-> UaIdle]
  /\ rp2 = RpIdle
  /\ pg = PgClosed

\* the ZTaskFields columns of a task, taken as one value
TaskFieldValues == {"task definition"}

\* what the annotation page writes when an assignment is saved
SaveUpdates == {[status |-> DONE, difficulty_rating |-> 1]}

\* the assignments the editors create for the sequencing requests
SequencerCreateInputs ==
  [annotator_id : Users, task_id : TaskIds, document_id : {1},
   status : {PENDING}, seq_pos : SeqPositions, difficulty_rating : {0},
   annotator_number : {1}]

StoreWrites(CreateInputs) ==
  \/ \E fields \in TaskFieldValues : task_create(fields)
  \/ \E input \in CreateInputs : create(input)
  \/ \E id \in 1..MaxAssignments, updates \in SaveUpdates : update(id, updates)

SequencerCalls ==
  \/ \E a \in Users, t \in TaskIds, dbError \in BOOLEAN :
       countAssignmentsByUserAndTask_next(a, t, dbError)
  \/ \E dbError \in BOOLEAN : countAssignmentsByUserAndTask_total(dbError)
  \/ \E a \in Users, dbError \in BOOLEAN : findNextAssignmentByUser(a, dbError)
  \/ \E a \in Users, t \in TaskIds, dbError \in BOOLEAN :
       findNextAssignmentsByUserAndTask(a, t, dbError)
  \/ sequencerReturn

NextSequencer == StoreWrites(SequencerCreateInputs) \/ SequencerCalls

SpecSequencer == Init /\ [][NextSequencer]_vars

\* ---- replication and merge
\* the assignments the editors create for the tasks to replicate and merge
ReplicateCreateInputs ==
  [annotator_id : {"u1"}, task_id : TaskIds, document_id : {1, 3},
   status : {PENDING}, seq_pos : {1}, difficulty_rating : {0},
   annotator_number : {1}]

AnnotationInputs ==
  [assignment_id : 1..MaxAssignments, label : {"L"}, start_index : {0},
   end_index : {1}, text : {"t"}, ls_id : {"ls1"}, origin : {MANUAL},
   confidence_rating : {0}]

RelationInputs ==
  [from_id : {"ls1"}, to_id : {"ls1"}, direction : {"right"}, labels : {<<"Is a">>}]

Annotating ==
  \/ \E fields \in AnnotationInputs : annotation_create(fields)
  \/ \E fields \in RelationInputs, from_id, to_id \in 1..MaxAnnotations :
       relation_create(fields, from_id, to_id)

Replications ==
  \/ \E first, second \in ReplicateCreateInputs : createMany_call(<<first, second>>)
  \/ \E task_id \in TaskIds : replicateTask_call(task_id)
  \/ \E dbError \in BOOLEAN : replicateTask_step(dbError)
  \/ replicateTask_return

Merges ==
  \/ \E o, s \in TaskIds : mergeTasks_call(o, s)
  \/ \E dbError \in BOOLEAN : mergeTasks_step(dbError)
  \/ mergeTasks_return

NextReplicate == StoreWrites(ReplicateCreateInputs) \/ Annotating \/ Replications

SpecReplicate == Init /\ [][NextReplicate]_vars

NextMerge == StoreWrites(ReplicateCreateInputs) \/ Annotating \/ Merges

SpecMerge == Init /\ [][NextMerge]_vars

\* ---- reassignment
\* the tasks the editors have set up when the reassignments start: task 1
\* with up to MaxSlotRows assignments, bound to the first accounts, in the
\* slots 0 (the column default) and 1
SeedInputs ==
  [annotator_id : Users, task_id : {1}, document_id : {1}, status : {PENDING},
   seq_pos : {1}, difficulty_rating : {0}, annotator_number : {0, 1}]

RECURSIVE SeedTable(_, _)
SeedTable(inputs, n) ==
  IF n = 0 THEN <<>>
  ELSE InsertAssignment(SeedTable(inputs, n - 1),
                        ZAssignmentFields([inputs[n] EXCEPT !.seq_pos = n]))

SeedTables ==
  UNION {{SeedTable(inputs, n) : inputs \in [1..n -> SeedInputs]} : n \in 0..MaxSlotRows}

\* the work done so far on the first assignment: an annotation, and a
\* relation from it to itself
SeedAnnotations(as) ==
  IF as = <<>> THEN <<>>
  ELSE InsertAnnotation(<<>>, CHOOSE f \in AnnotationInputs : f.assignment_id = 1)

SeedRelations(ans) ==
  IF ans = <<>> THEN <<>>
  ELSE InsertRelation(<<>>, convert_ls2db(CHOOSE f \in RelationInputs : TRUE, 1, 1))

InitReassign ==
  /\ tasks = InsertTask(<<>>, CHOOSE fields \in TaskFieldValues : TRUE)
  /\ assignments \in SeedTables
  /\ annotations = SeedAnnotations(assignments)
  /\ relations = SeedRelations(annotations)
  /\ sq = SqIdle
  /\ rp = RpIdle
  /\ mg = MgIdle
  /\ users = InitialUsers
  /\ ua = [r \in Reassigners |-> UaIdle]
  /\ rp2 = RpIdle
  /\ pg = PgClosed

\* new_emails: z.array(z.union([zValidEmail, z.literal("")]))
NewEmailLists ==
  UNION {[1..n -> Emails \cup {""}] : n \in 0..MaxEmails}

Reassignments(rs) ==
  \/ \E r \in rs, new_emails \in NewEmailLists : updateAssignees_call(r, 1, new_emails)
  \/ \E r \in rs, dbError \in BOOLEAN, fault \in Faults :
       updateAssignees_step(r, dbError, fault)
  \/ \E r \in rs : updateAssignees_return(r)

NextReassign == Reassignments({1})

SpecReassign == InitReassign /\ [][NextReassign]_vars

\* ---- reassignment of slots whose assignments are numbered 1..n
\* the assignments as the editors create them: every slot of the task has
\* its own annotator and its assignments at seq_pos 1, 2, ...
SlotInput(annotator_id, annotator_number, seq_pos) ==
  [annotator_id |-> annotator_id, task_id |-> 1, document_id |-> 1,
   status |-> PENDING, seq_pos |-> seq_pos, difficulty_rating |-> 0,
   annotator_number |-> annotator_number]

RECURSIVE CreatedTable(_, _)
CreatedTable(inputs, n) ==
  IF n = 0 THEN <<>>
  ELSE InsertAssignment(CreatedTable(inputs, n - 1), ZAssignmentFields(inputs[n]))

\* one slot of MaxSlotRows assignments, or two slots of one assignment each
SlotTables ==
  {CreatedTable([k \in 1..MaxSlotRows |-> SlotInput("u1", 1, k)], MaxSlotRows),
   CreatedTable(<<SlotInput("u1", 1, 1), SlotInput("u2", 2, 1)>>, 2)}

InitSlots ==
  /\ tasks = InsertTask(<<>>, CHOOSE fields \in TaskFieldValues : TRUE)
  /\ assignments \in SlotTables
  /\ annotations = SeedAnnotations(assignments)
  /\ relations = SeedRelations(annotations)
  /\ sq = SqIdle
  /\ rp = RpIdle
  /\ mg = MgIdle
  /\ users = InitialUsers
  /\ ua = [r \in Reassigners |-> UaIdle]
  /\ rp2 = RpIdle
  /\ pg = PgClosed

SpecSlots == InitSlots /\ [][NextReassign]_vars

\* ---- two reassignments side by side
\* task 1 with one slot (number 1) of up to MaxSlotRows assignments bound to
\* the first account, and two editors who each ask for another new annotator
OneSlotTables ==
  UNION {{SeedTable(inputs, n) :
            inputs \in [1..n -> {f \in SeedInputs : /\ f.annotator_id = "u1"
                                                    /\ f.annotator_number = 1}]} :
         n \in 1..MaxSlotRows}

InitTwoReassign ==
  /\ tasks = InsertTask(<<>>, CHOOSE fields \in TaskFieldValues : TRUE)
  /\ assignments \in OneSlotTables
  /\ annotations = SeedAnnotations(assignments)
  /\ relations = SeedRelations(annotations)
  /\ sq = SqIdle
  /\ rp = RpIdle
  /\ mg = MgIdle
  /\ users = InitialUsers
  /\ ua = [r \in Reassigners |-> UaIdle]
  /\ rp2 = RpIdle
  /\ pg = PgClosed

NewAnnotatorLists == {<<e>> : e \in Emails \ {u.email : u \in InitialUsers}}

NextTwoReassign ==
  \/ \E r \in Reassigners, new_emails \in NewAnnotatorLists :
       updateAssignees_call(r, 1, new_emails)
  \/ \E r \in Reassigners, dbError \in BOOLEAN, fault \in Faults :
       updateAssignees_step(r, dbError, fault)
  \/ \E r \in Reassigners : updateAssignees_return(r)

SpecTwoReassign == InitTwoReassign /\ [][NextTwoReassign]_vars

\* ---- two replications side by side
\* task 1 with up to MaxAssignments assignments, and the work done on the
\* first of them
SourceTables ==
  UNION {{SeedTable(inputs, n) :
            inputs \in [1..n -> {f \in ReplicateCreateInputs : f.task_id = 1}]} :
         n \in 0..MaxAssignments}

InitTwoReplications ==
  /\ tasks = InsertTask(<<>>, CHOOSE fields \in TaskFieldValues : TRUE)
  /\ assignments \in SourceTables
  /\ annotations = SeedAnnotations(assignments)
  /\ relations = SeedRelations(annotations)
  /\ sq = SqIdle
  /\ rp = RpIdle
  /\ mg = MgIdle
  /\ users = InitialUsers
  /\ ua = [r \in Reassigners |-> UaIdle]
  /\ rp2 = RpIdle
  /\ pg = PgClosed

NextTwoReplications ==
  \/ \E task_id \in TaskIds : replicateTask_call(task_id)
  \/ \E dbError \in BOOLEAN : replicateTask_step(dbError)
  \/ replicateTask_return
  \/ \E task_id \in TaskIds : replicateTask2_call(task_id)
  \/ \E dbError \in BOOLEAN : replicateTask2_step(dbError)
  \/ replicateTask2_return

SpecTwoReplications == InitTwoReplications /\ [][NextTwoReplications]_vars

\* ---- the life of the assignments of a task
\* task 1 with one slot of two assignments of the first account, the first
\* of them done, and task 2 with one assignment of the second account
LifecycleTable ==
  CreatedTable(<<[SlotInput("u1", 1, 1) EXCEPT !.status = DONE],
                 SlotInput("u1", 1, 2),
                 [SlotInput("u2", 1, 1) EXCEPT !.task_id = 2]>>, 3)

InitLifecycle ==
  /\ tasks = InsertTask(InsertTask(<<>>, CHOOSE fields \in TaskFieldValues : TRUE),
                        CHOOSE fields \in TaskFieldValues : TRUE)
  /\ assignments = LifecycleTable
  /\ annotations = SeedAnnotations(assignments)
  /\ relations = SeedRelations(annotations)
  /\ sq = SqIdle
  /\ rp = RpIdle
  /\ mg = MgIdle
  /\ users = InitialUsers
  /\ ua = [r \in Reassigners |-> UaIdle]
  /\ rp2 = RpIdle
  /\ pg = PgClosed

\* the requests are sent one after the other: none is under way on the
\* server, and no save is at one of its awaits
NoRequest ==
  /\ sq.pc = "idle" /\ rp.pc = "idle" /\ mg.pc = "idle" /\ ua[1].pc = "idle"
  /\ pg.pc \in {"closed", "open", "returned"}

\* the emails an editor asks for: none (un-bind) or a new annotator
LifecycleEmailLists == {<<"">>, <<"u3@x">>}

PageSteps ==
  \/ \E id \in 1..2, isEditor \in BOOLEAN : page_open(id, isEditor)
  \/ /\ NoRequest
     /\ \E dir \in Directions, noAnnotations, confirmed \in BOOLEAN, rating \in Ratings :
          save_call(dir, noAnnotations, confirmed, rating)
  \/ save_updateAnnotationsAndRelations
  \/ \E dbError \in BOOLEAN : save_update(dbError)
  \/ page_close

LifecycleCalls ==
  /\ NoRequest
  /\ \/ \E a \in Users, t \in 1..2, dbError \in BOOLEAN :
          countAssignmentsByUserAndTask_next(a, t, dbError)
     \/ \E a \in Users, dbError \in BOOLEAN : findNextAssignmentByUser(a, dbError)
     \/ \E a \in Users, t \in 1..2, dbError \in BOOLEAN :
          findNextAssignmentsByUserAndTask(a, t, dbError)
     \/ \E new_emails \in LifecycleEmailLists : updateAssignees_call(1, 1, new_emails)
     \/ \E task_id \in 1..2 : replicateTask_call(task_id)
     \/ \E o, s \in 1..2 : mergeTasks_call(o, s)

LifecycleSteps ==
  \/ \E dbError \in BOOLEAN : countAssignmentsByUserAndTask_total(dbError)
  \/ sequencerReturn
  \/ \E dbError \in BOOLEAN, fault \in Faults : updateAssignees_step(1, dbError, fault)
  \/ updateAssignees_return(1)
  \/ \E dbError \in BOOLEAN : replicateTask_step(dbError)
  \/ replicateTask_return
  \/ \E dbError \in BOOLEAN : mergeTasks_step(dbError)
  \/ mergeTasks_return

NextLifecycle == PageSteps \/ LifecycleCalls \/ LifecycleSteps

SpecLifecycle == InitLifecycle /\ [][NextLifecycle]_vars

\* ---- merging tasks whose documents share names, or do not
\* the original task 1 with two assignments and the similar task 2 with one,
\* on any documents: rows 1 and 3 of documents have the same name
MergeTables ==
  {CreatedTable(<<[SlotInput("u1", 1, 1) EXCEPT !.document_id = d1],
                  [SlotInput("u1", 1, 2) EXCEPT !.document_id = d2],
                  [SlotInput("u2", 1, 1) EXCEPT !.task_id = 2,
                                                !.document_id = d3]>>, 3) :
     d1 \in DocIds, d2 \in DocIds, d3 \in DocIds}

InitMergeNames ==
  /\ tasks = InsertTask(InsertTask(<<>>, CHOOSE fields \in TaskFieldValues : TRUE),
                        CHOOSE fields \in TaskFieldValues : TRUE)
  /\ assignments \in MergeTables
  /\ annotations = SeedAnnotations(assignments)
  /\ relations = SeedRelations(annotations)
  /\ sq = SqIdle
  /\ rp = RpIdle
  /\ mg = MgIdle
  /\ users = InitialUsers
  /\ ua = [r \in Reassigners |-> UaIdle]
  /\ rp2 = RpIdle
  /\ pg = PgClosed

SpecMergeNames == InitMergeNames /\ [][Merges]_vars

\* ================================================================== claims
\* the least element of a non-empty set of numbers
Least(S) == CHOOSE n \in S : \A m \in S : n <= m

PendingSeqPositions(a, t) ==
  {r.seq_pos : r \in {x \in ByUserAndTask(assignments, a, t) : x.status = PENDING}}

\* the request did not end on an error of the persistence layer
StoreAnswered(res) ==
  res.ok \/ res.error.message[Len(res.error.message)] # DbErrorMessage

\* the Sequencer request that completes in this step
Completes(op) == sq.pc # "done" /\ sq'.pc = "done" /\ sq'.op = op

\* C1: countAssignmentsByUserAndTask on a store that no write changes between
\* its two reads returns total = the number of assignments of the
\* (annotator, task) pair, pending and done, and next = the least seq_pos of
\* the pending ones, or total + 1 when none is pending ({next: 1, total: 0}
\* for a pair without assignments).
C1_CountContract ==
  [][(/\ Completes("countAssignmentsByUserAndTask")
      /\ sq'.res.ok
      /\ sq.next.data = IF PendingSeqPositions(sq.annotator_id, sq.task_id) = {}
                          THEN <<>>
                          ELSE <<Least(PendingSeqPositions(sq.annotator_id, sq.task_id))>>)
     => LET total == Cardinality(ByUserAndTask(assignments, sq.annotator_id, sq.task_id))
            pend == PendingSeqPositions(sq.annotator_id, sq.task_id)
        IN /\ sq'.res.value.total = total
           /\ sq'.res.value.next = IF pend = {} THEN total + 1 ELSE Least(pend)
           /\ (total = 0 => sq'.res.value = [next |-> 1, total |-> 0])]_vars

\* a count answered for a pair whose assignments are all done: past the end
C1_Witness ==
  /\ sq.pc = "done" /\ sq.op = "countAssignmentsByUserAndTask" /\ sq.res.ok
  /\ sq.res.value = [next |-> MaxAssignments + 1, total |-> MaxAssignments]
  /\ PendingSeqPositions(sq.annotator_id, sq.task_id) = {}
  /\ Cardinality(ByUserAndTask(assignments, sq.annotator_id, sq.task_id)) = MaxAssignments

\* C2: a step of a Sequencer operation leaves every table as it was, so every
\* assignment keeps its seq_pos, status, annotator_id and annotator_number.
C2_SequencerReadsOnly ==
  [][sq' # sq =>
       /\ assignments' = assignments
       /\ tasks' = tasks /\ annotations' = annotations /\ relations' = relations]_vars

\* a Sequencer call has answered from a store that holds pending and done rows
C2_Witness ==
  /\ sq.pc = "done" /\ sq.res.ok
  /\ \E i, j \in DOMAIN assignments :
       assignments[i].status = PENDING /\ assignments[j].status = DONE

\* C3: findNextAssignmentByUser returns a pending assignment of the annotator
\* that no other pending assignment of the annotator precedes (greater
\* task_id first, then smaller seq_pos), and null, not an error, when the
\* annotator has no pending assignment (the store answering).
C3_FindNextByUser ==
  [][Completes("findNextAssignmentByUser") =>
       LET u == sq'.annotator_id
           pending == {r \in Range(assignments) :
                         r.annotator_id = u /\ r.status = PENDING}
           res == sq'.res
       IN \/ ~res.ok /\ res.error.message[2] = DbErrorMessage
          \/ /\ res.ok
             /\ pending = {} => res.value = <<>>
             /\ pending # {} =>
                  /\ Len(res.value) = 1
                  /\ res.value[1] \in pending
                  /\ \A o \in pending :
                       /\ res.value[1].task_id >= o.task_id
                       /\ o.task_id = res.value[1].task_id
                            => res.value[1].seq_pos <= o.seq_pos]_vars

\* the answer is in the later task although the annotator has pending work
\* with a smaller seq_pos in the earlier one
C3_Witness ==
  /\ sq.pc = "done" /\ sq.op = "findNextAssignmentByUser" /\ sq.res.ok
  /\ sq.res.value # <<>>
  /\ \E o \in Range(assignments) :
       /\ o.annotator_id = sq.annotator_id /\ o.status = PENDING
       /\ o.task_id < sq.res.value[1].task_id
       /\ o.seq_pos < sq.res.value[1].seq_pos

\* C4: when the store answers, findNextAssignmentsByUserAndTask returns an
\* assignment that is pending and bound to the annotator in the task whenever
\* one exists, and fails with a NOT_FOUND error when none is pending.
C4_FailsNotFound ==
  [][(/\ Completes("findNextAssignmentsByUserAndTask")
      /\ StoreAnswered(sq'.res))
     => LET pending == {r \in ByUserAndTask(assignments, sq'.annotator_id, sq'.task_id) :
                          r.status = PENDING}
            res == sq'.res
        IN /\ pending # {} => res.ok /\ Len(res.value) = 1 /\ res.value[1] \in pending
           /\ pending = {} => ~res.ok /\ res.error.code = NOT_FOUND]_vars

\* C4 (amended): when the store answers, findNextAssignmentsByUserAndTask
\* returns an assignment that is pending and bound to the annotator in the
\* task whenever one exists, and with none pending it fails with the
\* INTERNAL_SERVER_ERROR it answers to any failed query, the message carrying
\* the no-row error of .single().
C4_FindNextByUserAndTask ==
  [][(/\ Completes("findNextAssignmentsByUserAndTask")
      /\ StoreAnswered(sq'.res))
     => LET pending == {r \in ByUserAndTask(assignments, sq'.annotator_id, sq'.task_id) :
                          r.status = PENDING}
            res == sq'.res
        IN /\ pending # {} => res.ok /\ Len(res.value) = 1 /\ res.value[1] \in pending
           /\ pending = {} =>
                /\ ~res.ok
                /\ res.error = TRPCError(INTERNAL_SERVER_ERROR,
                      <<"Error in findNextAssignmentsByUserAndTask: ", NoRowsMessage>>)]_vars

\* the call failed for an annotator whose assignments in the task are all done
C4_Witness ==
  /\ sq.pc = "done" /\ sq.op = "findNextAssignmentsByUserAndTask"
  /\ ~sq.res.ok /\ sq.res.error.code = INTERNAL_SERVER_ERROR
  /\ sq.res.error.message[2] = NoRowsMessage
  /\ PendingSeqPositions(sq.annotator_id, sq.task_id) = {}
  /\ ByUserAndTask(assignments, sq.annotator_id, sq.task_id) # {}

\* ---- replication and merge
AssignmentsOf(t) == SelectSeq(assignments, LAMBDA r : r.task_id = t)
AnnotationsOf(t) ==
  SelectSeq(annotations, LAMBDA r : assignments[r.assignment_id].task_id = t)
RelationsOf(t) ==
  SelectSeq(relations,
    LAMBDA r : assignments[annotations[r.from_id].assignment_id].task_id = t)

\* a row with some of its columns left out
Without(row, columns) == [c \in DOMAIN row \ columns |-> row[c]]

\* the copy of each source row, in the order of the source rows
CopiesMatch(src, cp, columns) ==
  /\ Len(cp) = Len(src)
  /\ \A i \in DOMAIN src : Without(cp[i], columns) = Without(src[i], columns)

\* the replicateTask request has run to its end on a task that exists and
\* has assignments, and the store answered each of its calls
ReplicateRan(l) ==
  /\ l.pc = "done" /\ l.task # <<>> /\ StoreAnswered(l.res)
  /\ AssignmentsOf(l.task_id) # <<>>

\* C5: replicateTask on a task with A assignments, N annotations and R
\* relations succeeds and leaves a new task with exactly A assignments that
\* agree with the source ones on annotator_number, seq_pos, status, difficulty
\* rating, origin, document and annotator, N annotations that agree on label,
\* offsets, text and ls_id, and R relations that agree on direction, labels,
\* ls_from and ls_to.
C5_ReplicaIsStructuralCopy ==
  ReplicateRan(rp) =>
    /\ rp.res.ok
    /\ CopiesMatch(AssignmentsOf(rp.task_id), AssignmentsOf(rp.res.value.id),
                   {"id", "task_id"})
    /\ CopiesMatch(AnnotationsOf(rp.task_id), AnnotationsOf(rp.res.value.id),
                   {"id", "assignment_id"})
    /\ CopiesMatch(RelationsOf(rp.task_id), RelationsOf(rp.res.value.id),
                   {"id", "from_id", "to_id"})

C7_NoPartialReplica ==
  (rp.pc = "done" /\ ~rp.res.ok /\ rp.task # <<>>) =>
    \/ rp.new_task = <<>>
    \/ rp.new_task \notin Range(tasks)
    \/ /\ Len(AssignmentsOf(rp.new_task.id)) = Len(AssignmentsOf(rp.task_id))
       /\ Len(AnnotationsOf(rp.new_task.id)) = Len(AnnotationsOf(rp.task_id))
       /\ Len(RelationsOf(rp.new_task.id)) = Len(RelationsOf(rp.task_id))

\* the mergeTasks request has run to its end on two tasks that have
\* assignments on documents of the same names, and the store answered
MergeRan ==
  /\ mg.pc = "done" /\ StoreAnswered(mg.res) /\ mg.replicate.task # <<>>
  /\ mg.similarTaskId \in 1..Len(tasks) /\ mg.similarTaskId # mg.originalTaskId
  /\ AssignmentsOf(mg.originalTaskId) # <<>>
  /\ AssignmentsOf(mg.similarTaskId) # <<>>
  /\ {DocName(r.document_id) : r \in Range(AssignmentsOf(mg.similarTaskId))}
       = {DocName(r.document_id) : r \in Range(AssignmentsOf(mg.originalTaskId))}

C10_MergeFailureIsWrappedAndKept ==
  (mg.pc = "done" /\ ~mg.res.ok) =>
    /\ mg.res.error.code = INTERNAL_SERVER_ERROR
    /\ mg.res.error.message[1] = "Error in mergeTasks: "
    /\ ~mg.replicate.res.ok =>
         mg.res.error.message =
           <<"Error in mergeTasks: ", "TRPCError: ">> \o mg.replicate.res.error.message
    /\ mg.replicate.new_task # <<>> => mg.replicate.new_task \in Range(tasks)

\* the merge failed after its replication had inserted the scratch task,
\* which is still there with none of the original's assignments copied
C10_Witness ==
  /\ mg.pc = "done" /\ ~mg.res.ok
  /\ mg.replicate.new_task # <<>>
  /\ mg.replicate.new_task \in Range(tasks)
  /\ AssignmentsOf(mg.originalTaskId) # <<>>
  /\ AssignmentsOf(mg.replicate.new_task.id) = <<>>
  /\ mg.res.error.message[3] = "Expected array, received "

\* ---- reassignment
\* the step that request r takes
UaStep(r) == ua'[r] # ua[r] /\ ua[r].pc \notin {"idle", "done"}

\* every requested email is the email the list of annotators has at its index
AllSame(l) ==
  \A k \in DOMAIN l.new_emails :
    k <= Len(l.annotators) /\ l.new_emails[k] = l.annotators[k].email

NoChanges(l) == Ok([message |-> "No changes have been made", annotators |-> l.annotators])
AllReassigned(l) ==
  Ok([message |-> "All the assignments have been reassigned", annotators |-> l.annotators])

\* C11: an updateAssignees whose every new email equals the current email of
\* its slot is over once the list of annotators is read: it changes no
\* table, invites no user and updates no account, and it returns the message
\* "No changes have been made".
C11_SameEmailsChangeNothing ==
  [][\A r \in Reassigners :
       (/\ UaStep(r) /\ ua[r].pc = "getAllAnnotatorsFromTask"
        /\ StoreAnswered(ua'[r].res)
        /\ ua'[r].annotators \in
             get_all_annotators_from_task(assignments, users, ua[r].task_id)
        /\ AllSame(ua'[r]))
       => /\ ua'[r].pc = "done" /\ ua'[r].res = NoChanges(ua'[r])
          /\ store' = store /\ users' = users]_vars

\* a request for two slots, both emails as they are, has answered
C11_Witness ==
  /\ ua[1].pc = "done" /\ ua[1].res = NoChanges(ua[1])
  /\ Len(ua[1].new_emails) = 2 /\ ua[1].new_emails[1] # ua[1].new_emails[2]
  /\ AllSame(ua[1])
  /\ ua[1].annotators \in get_all_annotators_from_task(assignments, users, 1)

\* C12: a slot whose requested email is the empty string is left alone: no
\* update of an assignment is made for it, so no assignment of the slot is
\* modified and the counts of successes and failures stay as they were.
C12_EmptyEmailLeavesSlotAlone ==
  [][\A r \in Reassigners :
       (UaStep(r) /\ ua[r].pc = "update" /\ ua[r].new_emails[ua[r].i] = "")
       => assignments' = assignments /\ ua'[r].stats = ua[r].stats]_vars

\* C12 (amended): a slot whose requested email is the empty string is
\* unbound: no user is looked up or invited for it, and each update made for
\* it sets the annotator_id of the assignment to null and counts a success,
\* or fails, changes nothing and counts a failure.
C12_EmptyEmailUnbindsSlot ==
  [][\A r \in Reassigners :
       /\ (UaStep(r) /\ ua'[r].pc = "assignUserToTask")
            => ua'[r].new_emails[ua'[r].i] # ""
       /\ (UaStep(r) /\ ua[r].pc = "update" /\ ua[r].new_emails[ua[r].i] = "")
            => LET id == ua[r].assignments[ua[r].j].id
               IN /\ users' = users
                  /\ \/ /\ assignments' =
                             [assignments EXCEPT ![id].annotator_id = NULL]
                        /\ ua'[r].stats = [ua[r].stats EXCEPT !.success = @ + 1]
                     \/ /\ assignments' = assignments
                        /\ ua'[r].stats = [ua[r].stats EXCEPT !.failed = @ + 1]]_vars

\* the request with an empty email for the slot of an account has answered
\* that all was reassigned, and the slot's assignment has no annotator
C12_Witness ==
  /\ ua[1].pc = "done" /\ ua[1].res = AllReassigned(ua[1])
  /\ ua[1].new_emails = <<"">>
  /\ Len(assignments) = 1 /\ assignments[1].annotator_id = NULL
  /\ ua[1].stats = [success |-> 1, failed |-> 0]

\* the slots of a task, and the i-th of them in the order of their numbers
SlotsOf(t) == {r.annotator_number : r \in Range(AssignmentsOf(t))}
Slot(t, i) ==
  CHOOSE n \in SlotsOf(t) : Cardinality({m \in SlotsOf(t) : m < n}) = i - 1

\* C13: an updateAssignees on a task with N slots, given N distinct emails
\* of which none has an account, that meets no failure returns "All the
\* assignments have been reassigned" with every assignment of slot i bound
\* to the account made for new_emails[i].
C13_AllSlotsReassigned ==
  \A r \in Reassigners :
    LET l == ua[r]
        N == Len(l.new_emails)
    IN (/\ l.pc = "done" /\ l.res.ok
        /\ N >= 1 /\ N = Cardinality(SlotsOf(l.task_id))
        /\ \A k \in 1..N : l.new_emails[k] \in Emails \ {u.email : u \in InitialUsers}
        /\ \A k, m \in 1..N : k # m => l.new_emails[k] # l.new_emails[m])
       => /\ l.res = AllReassigned(l)
          /\ \A k \in 1..N : \A a \in Range(AssignmentsOf(l.task_id)) :
               a.annotator_number = Slot(l.task_id, k)
                 => a.annotator_id = InvitedUserId(l.new_emails[k])

\* C14: updateAssignees has no rollback: a step of a request changes at most
\* the assignment it updates, to the new annotator_id, and the steps that end
\* the request in an error (a user that cannot be resolved, a failed update,
\* a failed read) and the delivery of the response put nothing back; a
\* request in which an update failed ends in an error.
C14_NoRollback ==
  [][\A r \in Reassigners :
       /\ UaStep(r) =>
            /\ DOMAIN assignments' = DOMAIN assignments
            /\ \A id \in DOMAIN assignments :
                 assignments'[id] # assignments[id] =>
                   /\ ua[r].pc = "update"
                   /\ id = ua[r].assignments[ua[r].j].id
                   /\ ua'[r].stats.success = ua[r].stats.success + 1
                   /\ assignments'[id] =
                        [assignments[id] EXCEPT !.annotator_id = ua[r].new_user]
            /\ (ua'[r].pc = "done" /\ ua'[r].stats.failed > 0) => ~ua'[r].res.ok
       /\ (ua[r].pc = "done" /\ ua'[r].pc = "idle") => assignments' = assignments]_vars

\* a request for one slot of two assignments ended in an error with the first
\* assignment bound to the new account and the second to the old one
C14_Witness ==
  /\ ua[1].pc = "done" /\ ~ua[1].res.ok
  /\ ua[1].new_emails = <<"u3@x">>
  /\ Len(assignments) = 2
  /\ assignments[1].annotator_number = assignments[2].annotator_number
  /\ assignments[1].annotator_id = "u3" /\ assignments[2].annotator_id = "u1"

\* C15: when the user of a changed slot cannot be resolved, the slot is
\* skipped with a recorded failure and the loop goes on: the step that calls
\* assignUserToTask either leaves the request running or ends it with the
\* classification of its counts.
C15_FailedUserSkipsSlot ==
  [][\A r \in Reassigners :
       (UaStep(r) /\ ua[r].pc = "assignUserToTask" /\ ua'[r].pc = "done")
       => ua'[r].res = Classify(ua'[r].stats, ua'[r].annotators)]_vars

\* the request ran its loop to the end: no slot from l.i on is left to do
LoopEnded(l) == l.pc = "done" /\ NextChanged(l) = 0 /\ StoreAnswered(l.res)

Message(res) == IF res.ok THEN res.value.message ELSE res.error.message[1]

\* C16: a request whose loop ran to its end answers by its counts s and f:
\* s>0, f=0 returns "All the assignments have been reassigned"; s=0, f=0
\* returns "No changes have been made"; s>0, f>0 throws "Some assignment
\* updates failed"; s=0, f>0 throws "All assignment updates failed"; and no
\* request ends with "Undefined case".
C16_FourOutcomes ==
  \A r \in Reassigners :
    LET l == ua[r]
        s == l.stats.success
        f == l.stats.failed
    IN /\ l.pc = "done" => Message(l.res) # "Undefined case"
       /\ LoopEnded(l) =>
            /\ (s > 0 /\ f = 0) => l.res = AllReassigned(l)
            /\ (s = 0 /\ f = 0) => l.res = NoChanges(l)
            /\ (s > 0 /\ f > 0) =>
                 l.res = Throw(TRPCError(INTERNAL_SERVER_ERROR,
                                 <<"Some assignment updates failed">>))
            /\ (s = 0 /\ f > 0) =>
                 l.res = Throw(TRPCError(INTERNAL_SERVER_ERROR,
                                 <<"All assignment updates failed">>))
       /\ (l.pc = "done" /\ l.res.ok) => LoopEnded(l)

\* a request ended with one update made and one failed
C16_Witness ==
  /\ LoopEnded(ua[1])
  /\ ua[1].stats = [success |-> 1, failed |-> 1]
  /\ Message(ua[1].res) = "Some assignment updates failed"

\* C17: a step of updateAssignees and the delivery of its response leave the
\* tasks, the annotations and the relations as they are, and of every
\* assignment every column but annotator_id.
C17_OnlyAnnotatorIdChanges ==
  [][\A r \in Reassigners :
       (ua'[r] # ua[r]) =>
         /\ tasks' = tasks /\ annotations' = annotations /\ relations' = relations
         /\ DOMAIN assignments' = DOMAIN assignments
         /\ \A id \in DOMAIN assignments :
              assignments'[id] =
                [assignments[id] EXCEPT !.annotator_id = assignments'[id].annotator_id]]_vars

\* a request has re-bound an assignment that has an annotation and a relation
C17_Witness ==
  /\ ua[1].pc = "done" /\ ua[1].res = AllReassigned(ua[1])
  /\ assignments # <<>> /\ assignments[1].annotator_id = "u3"
  /\ annotations # <<>> /\ annotations[1].assignment_id = 1
  /\ relations # <<>>

\* ---- two replications
\* the rows of two tables of rows have no id in common
NoSharedRow(a, b) == {r.id : r \in Range(a)} \cap {r.id : r \in Range(b)} = {}

\* the task l.new_task holds a copy of every row of the source task
CompleteCopy(l) ==
  /\ l.res.ok /\ l.res.value.id # l.task_id
  /\ CopiesMatch(AssignmentsOf(l.task_id), AssignmentsOf(l.res.value.id),
                 {"id", "task_id"})
  /\ CopiesMatch(AnnotationsOf(l.task_id), AnnotationsOf(l.res.value.id),
                 {"id", "assignment_id"})
  /\ CopiesMatch(RelationsOf(l.task_id), RelationsOf(l.res.value.id),
                 {"id", "from_id", "to_id"})

\* C18: two replications of the same source task, their steps interleaved in
\* any order, leave two distinct new tasks, each with a complete copy of the
\* source's assignments, annotations and relations and no row in common, and
\* the source task and its rows are as they were.
C18_TwoIndependentCopies ==
  (ReplicateRan(rp) /\ ReplicateRan(rp2) /\ rp.task_id = rp2.task_id) =>
    /\ CompleteCopy(rp) /\ CompleteCopy(rp2)
    /\ rp.res.value.id # rp2.res.value.id
    /\ NoSharedRow(AssignmentsOf(rp.res.value.id), AssignmentsOf(rp2.res.value.id))
    /\ NoSharedRow(AnnotationsOf(rp.res.value.id), AnnotationsOf(rp2.res.value.id))
    /\ NoSharedRow(RelationsOf(rp.res.value.id), RelationsOf(rp2.res.value.id))
    /\ rp.task \in Range(tasks)

\* C19: no two assignments have the same task, annotator_number and seq_pos.
C19_SlotPositionUnique ==
  \A i, j \in DOMAIN assignments :
    (/\ assignments[i].task_id = assignments[j].task_id
     /\ assignments[i].annotator_number = assignments[j].annotator_number
     /\ assignments[i].seq_pos = assignments[j].seq_pos) => i = j

C21_UpdatesInterleave ==
  [][\A r \in Reassigners :
       (/\ UaStep(r) /\ ua[r].pc = "update"
        /\ ua'[r].stats.success = ua[r].stats.success + 1)
       => LET id == ua[r].assignments[ua[r].j].id
          IN assignments' = [assignments EXCEPT ![id].annotator_id = ua[r].new_user]]_vars

\* both requests have answered that all was reassigned, and the two
\* assignments of the slot are bound to the two different new users
C21_Witness ==
  /\ \A r \in Reassigners : ua[r].pc = "done" /\ ua[r].res = AllReassigned(ua[r])
  /\ ua[1].new_emails # ua[2].new_emails
  /\ Len(assignments) = 2
  /\ assignments[1].annotator_number = assignments[2].annotator_number
  /\ {assignments[1].annotator_id, assignments[2].annotator_id} = {"u3", "u4"}

\* C23: the updates that updateAssignees makes for the slot at index i of the
\* list change assignments of the task with that slot's annotator_number
\* only, whatever the number (0, the column default, included).
C23_OnlySlotRebound ==
  [][\A r \in Reassigners :
       (UaStep(r) /\ ua[r].pc = "update") =>
         \A id \in DOMAIN assignments :
           assignments'[id] # assignments[id] =>
             /\ assignments[id].task_id = ua[r].task_id
             /\ assignments[id].annotator_number =
                  ua[r].annotators[ua[r].i].annotator_number]_vars

\* C24: the list of annotators that updateAssignees reads has one row for
\* each slot of the task, in every state, the states during and after a
\* request that failed in part included.
C24_OneRowPerSlot ==
  \A t \in 1..Len(tasks) :
    \A rows \in get_all_annotators_from_task(assignments, users, t) :
      /\ Len(rows) = Cardinality(SlotsOf(t))
      /\ \A i \in DOMAIN rows : rows[i].annotator_number = Slot(t, i)

\* ---- slots numbered 1..n
\* C26: in every state, for every annotator and task,
\* countAssignmentsByUserAndTask returns a result with 1 <= next <= total + 1.
C26_NextWithinTotal ==
  \A a \in {u.id : u \in users}, t \in 1..Len(tasks) :
    LET res == countAssignmentsByUserAndTask(assignments, a, t)
    IN res.ok /\ 1 <= res.value.next /\ res.value.next <= res.value.total + 1

\* C27: in every state, a task, an annotator and a seq_pos match at most one
\* assignment, so findAssignmentsByUserTaskSeq fails only when none matches.
C27_UserTaskSeqUnique ==
  \A a \in {u.id : u \in users}, t \in 1..Len(tasks), p \in 1..MaxSlotRows :
    \/ findAssignmentsByUserTaskSeq(assignments,
          [annotator_id |-> a, task_id |-> t, seq_pos |-> p], FALSE).ok
    \/ \A r \in Range(assignments) :
         ~(r.task_id = t /\ r.annotator_id = a /\ r.seq_pos = p)

\* ---- the two queries of the count
\* C25: a countAssignmentsByUserAndTask returns what it would return on one
\* state of the store, the one its first query read or the one its second
\* query reads, whatever write comes between the two.
C25_CountOfOneState ==
  [][(Completes("countAssignmentsByUserAndTask") /\ sq'.res.ok) =>
       sq'.res \in {countAssignmentsByUserAndTask(sq.seen, sq.annotator_id, sq.task_id),
                    countAssignmentsByUserAndTask(assignments, sq.annotator_id,
                                                  sq.task_id)}]_vars

\* ---- the life of the assignments
\* C22: no step of a Sequencer query, of updateAssignees, of replicateTask,
\* of mergeTasks or of the annotator's save changes the seq_pos of an
\* assignment that exists, and none removes an assignment.
C22_SeqPosNeverChanges ==
  [][\A id \in DOMAIN assignments :
       /\ id \in DOMAIN assignments'
       /\ assignments'[id].seq_pos = assignments[id].seq_pos]_vars

\* the page has saved the second assignment of the slot, which is done now
\* and is where it was, and the Sequencer finds nothing pending for the pair
C22_Witness ==
  /\ pg.pc = "returned" /\ pg.res /\ pg.assignment.id = 2
  /\ pg.assignment.status = PENDING
  /\ assignments[2].status = DONE /\ assignments[2].seq_pos = 2
  /\ countAssignmentsByUserAndTask(assignments, "u1", 1) =
       Ok([next |-> 3, total |-> 2])

\* C28: a replicateTask of a task that has assignments without an annotator
\* succeeds, and the copies of those assignments have no annotator either.
C28_UnassignedAreCopied ==
  (/\ ReplicateRan(rp)
   /\ \E r \in Range(AssignmentsOf(rp.task_id)) : r.annotator_id = NULL)
  => /\ rp.res.ok
     /\ CopiesMatch(AssignmentsOf(rp.task_id), AssignmentsOf(rp.res.value.id),
                    {"id", "task_id"})

\* C30: the status of an assignment never goes from done to pending; a save
\* in the direction NEXT or CURRENT that is not declined sets the status to
\* done with its update, and a save in the direction PREVIOUS, or one that
\* is declined, changes no assignment.
C30_StatusOnlyToDone ==
  [][/\ \A id \in DOMAIN assignments :
          assignments[id].status = DONE =>
            id \in DOMAIN assignments' /\ assignments'[id].status = DONE
     /\ (pg.pc = "update" /\ pg'.pc = "returned" /\ pg'.res) =>
          /\ pg.dir \in {NEXT, CURRENT}
          /\ assignments'[pg.assignment.id].status = DONE
     /\ (pg.pc = "updateAnnotationsAndRelations" /\ pg' # pg) =>
          (pg'.pc = "update" <=> pg.dir \in {NEXT, CURRENT})
     /\ (pg' # pg /\ pg.pc = "open" /\ pg'.pc = "returned") =>
          /\ ~pg'.res /\ pg'.dir = NEXT /\ ~pg.isEditor
          /\ pg.assignment.status # DONE
     /\ (pg' # pg /\ (pg.pc # "update" \/ pg.dir = PREVIOUS)) =>
          assignments' = assignments]_vars

\* a save in the direction NEXT has turned a pending assignment to done
C30_Witness ==
  /\ pg.pc = "returned" /\ pg.res /\ pg.dir = NEXT
  /\ pg.assignment.status = PENDING
  /\ assignments[pg.assignment.id].status = DONE

====
